---------------------------- MODULE Spec2Model ----------------------------
(***************************************************************************)
(* Per-IP token-bucket rate limiter (package ipratelimit).                 *)
(*                                                                         *)
(* The limiter keeps one bucket per hashed IP in the map ipmap, a FIFO     *)
(* queue keys of the hashed IPs in order of first sight, and one mutex m.  *)
(* ServeHTTP extracts the IP, bypasses the limiter when there is none,     *)
(* otherwise runs allow(): read the clock, take the mutex, look the bucket *)
(* up, sweep the oldest keys when the map is full, push a new key, refill, *)
(* take a token, stamp the bucket, store it, release the mutex.            *)
(*                                                                         *)
(* Units.  Time is counted in ticks of 100ms.  Tokens are held as          *)
(* multiples of 1/refillEvery of a token, so that the quotient             *)
(* float64(spent)/refillEvery of the source is the integer spent and one   *)
(* whole token is the integer refillEvery; bucket.left of the source is    *)
(* left/refillEvery here.  With these units every quantity of the source   *)
(* is an exact integer.                                                    *)
(***************************************************************************)
EXTENDS Integers, Sequences, FiniteSets, TLC

VARIABLES
    cfg,      \* the arguments of New: [Handler, RefillEvery, Burst, MaxBuckets]
    ipmap,    \* limiter.ipmap: hashed key -> bucket [left, mtime]
    keys,     \* limiter.keys: the buffered channel, as a FIFO sequence
    m,        \* limiter.m: 0 when unlocked, else the caller holding it
    clock,    \* what time.Now() returns, in ticks
    pc,       \* per caller: "idle", "lock" (before h.m.Lock()), "locked"
    rip,      \* per caller: the IP of its request
    rnow,     \* per caller: its local variable now
    fatal,    \* "none", or the panic some request has raised so far
    last,     \* the most recently completed ServeHTTP call
    hist,     \* per tracked key: what happened to its bucket since creation
    run,      \* the leading run of requests for untracked keys
    nreq      \* the number of calls of allow() so far

vars == <<cfg, ipmap, keys, m, clock, pc, rip, rnow, fatal, last, hist, run,
          nreq>>

---------------------------------------------------------------------------
(* Bounds of the model *)

NumCallers == 3        \* concurrent callers of ServeHTTP in Spec
MaxClock == 3          \* the clock stops advancing here in Spec
MaxReqs == 3           \* calls of allow() in Spec
SeqMaxClock == 5       \* the clock stops advancing here in SpecSeq
SeqMaxReqs == 5        \* calls of allow() in SpecSeq
SkewMaxReqs == 4       \* calls of allow() in SpecSkew
MaxHits == 2           \* checks of one bucket in SpecEvict
ExtraReqs == 12        \* calls of allow() beyond maxCap in SpecEvict
LiveMaxClock == 2      \* the clock stops advancing here in SpecLive
LiveMaxReqs == 3       \* calls of allow() in SpecLive
NewMaxClock == 2       \* the clock stops advancing here in SpecNew
NewMaxReqs == 3        \* calls of allow() in SpecNew

---------------------------------------------------------------------------
(* Program constants *)

TicksPerSecond == 10       \* time.Second, in ticks
MinBuckets == 100          \* MaxBuckets below this are replaced
DefaultMaxBuckets == 100000
EvictDivisor == 10         \* a sweep dequeues cap(keys)/10 keys
HashSpace == 128           \* the model's range of xxhash.Sum64
StatusOK == 200            \* what the inner handler answers
StatusTooManyRequests == 429

DefaultRefillEvery == TicksPerSecond \div 10

Min(a, b) == IF a < b THEN a ELSE b

Callers == 1 .. NumCallers

---------------------------------------------------------------------------
(* IP addresses.  fam is 0 for a nil net.IP, 4 for an IPv4 address, 6 for  *)
(* an address with no IPv4 form.                                           *)

NilIP == [fam |-> 0, addr |-> 0]
V4(n) == [fam |-> 4, addr |-> n]
V6(n) == [fam |-> 6, addr |-> n]

NoUsableKeyNilOnly(ip) == ip.fam = 0

\* ip == nil || ip.To4() == nil
NoUsableKey(ip) == ip.fam = 0 \/ ip.fam # 4

\* xxhash.Sum64(ip): deterministic, and not injective
Sum64(ip) == ip.addr % HashSpace

---------------------------------------------------------------------------
(* New: the limiter's fields as functions of the Config *)

NewIntervalKeep(i) == i

NewInterval(i) == IF i <= 0 THEN DefaultRefillEvery ELSE i
NewBurst(b) == IF b < 1 THEN 1 ELSE b
NewMaxCapacity(c) == IF c < MinBuckets THEN DefaultMaxBuckets ELSE c

refillEvery == NewInterval(cfg.RefillEvery)
burst == NewBurst(cfg.Burst)
maxCap == NewMaxCapacity(cfg.MaxBuckets)      \* cap(h.keys)

\* burst tokens, in units of 1/refillEvery token
FullLeft == burst * refillEvery

\* if h == nil { panic("nil handler") }: New returns a limiter
Constructed == cfg.Handler

\* interval.Truncate(time.Second): rounded toward zero to whole seconds
Truncate(d, unit) == d - (d % unit)

\* strconv.Itoa, for n >= 0: the decimal digits, most significant first
RECURSIVE Itoa(_)
Itoa(n) == IF n < 10 THEN <<n>> ELSE Append(Itoa(n \div 10), n % 10)

RetryAfterNoMargin(interval) ==
    Truncate(interval, TicksPerSecond) \div TicksPerSecond

RetryAfterSeconds(interval) ==
    (Truncate(interval, TicksPerSecond) \div TicksPerSecond) + 1

\* retryAfter := int(interval.Truncate(time.Second)/time.Second) + 1
\* retryAfter: strconv.Itoa(retryAfter)
retryAfter == Itoa(RetryAfterSeconds(refillEvery))

---------------------------------------------------------------------------
(* allow(): the steps run under the mutex, as functions of the state *)

\* bkt = bucket{left: h.burst}
NewBucket == [left |-> FullLeft, mtime |-> 0]

LookupFresh(map, key) == NewBucket

\* bkt, ok := h.ipmap[key]; if !ok { bkt = bucket{left: h.burst} }
Lookup(map, key) == IF key \in DOMAIN map THEN map[key] ELSE NewBucket

\* len(h.ipmap) >= maxCap
SweepNeededLate(map) == Cardinality(DOMAIN map) > maxCap

SweepNeeded(map) == Cardinality(DOMAIN map) >= maxCap

EvictHundredth == maxCap \div (EvictDivisor * EvictDivisor)

\* the loop bound maxCap/10
EvictCount == maxCap \div EvictDivisor

DeleteAll(map, k) == [x \in {} |-> map[x]]

\* delete(h.ipmap, k)
Delete(map, k) == [x \in DOMAIN map \ {k} |-> map[x]]

RECURSIVE SweepLoopNoDelete(_, _, _)
SweepLoopNoDelete(st, i, n) ==
    IF i >= n THEN st
    ELSE IF st.q = <<>> THEN [st EXCEPT !.panic = "recv"]
    ELSE SweepLoopNoDelete([map |-> st.map,
                            q |-> Tail(st.q),
                            gone |-> Append(st.gone, Head(st.q)),
                            panic |-> "none"], i + 1, n)

\* for i := 0; i < maxCap/10; i++ { select { case k := <-h.keys: delete(h.ipmap, k)
\*                                           default: panic(...) } }
\* st is [map, q, gone, panic]: gone lists the keys received so far.
RECURSIVE SweepLoop(_, _, _)
SweepLoop(st, i, n) ==
    IF i >= n THEN st
    ELSE IF st.q = <<>> THEN [st EXCEPT !.panic = "recv"]
    ELSE SweepLoop([map |-> Delete(st.map, Head(st.q)),
                    q |-> Tail(st.q),
                    gone |-> Append(st.gone, Head(st.q)),
                    panic |-> "none"], i + 1, n)

\* if maxCap := cap(h.keys); len(h.ipmap) >= maxCap { ... }
Sweep(map, q) ==
    IF SweepNeeded(map)
    THEN SweepLoop([map |-> map, q |-> q, gone |-> <<>>, panic |-> "none"],
                   0, EvictCount)
    ELSE [map |-> map, q |-> q, gone |-> <<>>, panic |-> "none"]

\* select { case h.keys <- key: default: panic("push to h.keys is blocked") }
Push(q, key) ==
    IF Len(q) < maxCap THEN [q |-> Append(q, key), panic |-> "none"]
    ELSE [q |-> q, panic |-> "push"]

PushAlways(q, key, ok) == Push(q, key)

\* if !ok { select { case h.keys <- key: default: panic(...) } }
PushIfNew(q, key, ok) ==
    IF ok THEN [q |-> q, panic |-> "none"] ELSE Push(q, key)

\* spent := now.Sub(time.Unix(0, bkt.mtime))
Spent(bkt, now) == IF bkt.mtime # 0 THEN now - bkt.mtime ELSE 0

RefillWhole(bkt, now) ==
    IF bkt.mtime # 0 /\ now - bkt.mtime > 0
    THEN [bkt EXCEPT !.left =
              Min(FullLeft,
                  bkt.left + ((now - bkt.mtime) \div refillEvery) * refillEvery)]
    ELSE bkt

RefillSigned(bkt, now) ==
    IF bkt.mtime # 0
    THEN [bkt EXCEPT !.left = Min(FullLeft, bkt.left + (now - bkt.mtime))]
    ELSE bkt

\* if bkt.mtime != 0 { if refillBy > 0 { bkt.left += refillBy
\*                                      if bkt.left > h.burst { bkt.left = h.burst } } }
Refill(bkt, now) ==
    IF bkt.mtime # 0 /\ now - bkt.mtime > 0
    THEN [bkt EXCEPT !.left = Min(FullLeft, bkt.left + (now - bkt.mtime))]
    ELSE bkt

HasAnyToken(bkt) == bkt.left > 0

\* if bkt.left >= 1
HasToken(bkt) == bkt.left >= refillEvery

\* if bkt.left >= 1 { bkt.left--; allow = true }
Take(bkt) ==
    IF HasToken(bkt) THEN [bkt EXCEPT !.left = bkt.left - refillEvery] ELSE bkt

\* bkt.mtime = now.UnixNano()
Stamp(bkt, now) == [bkt EXCEPT !.mtime = now]

SettleAdmittedOnly(bkt, now) ==
    IF HasToken(bkt) THEN Stamp(Take(bkt), now) ELSE bkt

\* if bkt.left >= 1 { bkt.left--; allow = true }; bkt.mtime = now.UnixNano()
Settle(bkt, now) == Stamp(Take(bkt), now)

\* h.ipmap[key] = bkt
Store(map, key, bkt) ==
    [x \in DOMAIN map \cup {key} |-> IF x = key THEN bkt ELSE map[x]]

RespondFallThrough(allow) ==
    [calls |-> 1,
     status |-> IF allow THEN StatusOK ELSE StatusTooManyRequests,
     retry |-> <<>>]

\* if !allow { w.Header().Set("Retry-After", h.retryAfter)
\*              http.Error(w, ..., http.StatusTooManyRequests); return }
\* h.handler.ServeHTTP(w, r)
Respond(allow) ==
    IF ~allow
    THEN [calls |-> 0, status |-> StatusTooManyRequests, retry |-> retryAfter]
    ELSE [calls |-> 1, status |-> StatusOK, retry |-> <<>>]

\* The whole of allow() after h.m.Lock(): the map and queue it leaves, its
\* result, the keys its sweep dequeued, and the panic it raised, if any.
Allow(map, q, key, now) ==
    LET ok == key \in DOMAIN map
        bkt == Lookup(map, key)
        sw == Sweep(map, q)
        ps == PushIfNew(sw.q, key, ok)
        filled == Refill(bkt, now)
        done == Settle(filled, now)
    IN  IF sw.panic # "none"
        THEN [ipmap |-> sw.map, keys |-> sw.q, allow |-> FALSE,
              evictDone |-> FALSE, evicted |-> sw.gone, panic |-> sw.panic]
        ELSE IF ps.panic # "none"
        THEN [ipmap |-> sw.map, keys |-> sw.q, allow |-> FALSE,
              evictDone |-> SweepNeeded(map), evicted |-> sw.gone,
              panic |-> ps.panic]
        ELSE [ipmap |-> Store(sw.map, key, done), keys |-> ps.q,
              allow |-> HasToken(filled),
              evictDone |-> SweepNeeded(map), evicted |-> sw.gone,
              panic |-> "none"]

---------------------------------------------------------------------------
(* Observation of a run: what the properties below are stated about.       *)
(* None of it is read by the limiter.                                      *)

NoKey == 0 - 1

\* One entry of a bucket's log: the clock reading of the check, its result,
\* the tokens it found and left, and the elapsed time it measured.
LogEntry(bkt, now, res, key) ==
    [now |-> now, allow |-> res.allow, pre |-> bkt.left,
     left |-> res.ipmap[key].left, spent |-> Spent(bkt, now),
     fresh |-> bkt.mtime = 0]

LastThree(s) == IF Len(s) > 3 THEN SubSeq(s, Len(s) - 2, Len(s)) ELSE s

\* callers between time.Now() and the end of allow() with this key
Pending(key) == {c \in Callers : pc[c] # "idle" /\ Sum64(rip[c]) = key}

\* The history of key's bucket after a check that ended without a panic.
HistAfter(key, now, res) ==
    LET bkt == Lookup(ipmap, key)
        e == LogEntry(bkt, now, res, key)
        n == Cardinality(Pending(key))
        adm == IF res.allow THEN 1 ELSE 0
    IN  IF key \in DOMAIN hist
        THEN [t0 |-> hist[key].t0,
              nchk |-> hist[key].nchk + 1,
              nadm |-> hist[key].nadm + adm,
              same |-> hist[key].same /\ now = hist[key].t0,
              mono |-> hist[key].mono /\ now >= bkt.mtime,
              conc |-> IF n > hist[key].conc THEN n ELSE hist[key].conc,
              log |-> LastThree(Append(hist[key].log, e))]
        ELSE [t0 |-> now, nchk |-> 1, nadm |-> adm, same |-> TRUE,
              mono |-> TRUE, conc |-> n, log |-> <<e>>]

\* The leading run of checks for untracked keys, from the empty store:
\* n counts them and first is the first key, until a check finds its key
\* tracked or the run is longer than maxCap + 1.
RunAfter(key) ==
    IF run.open /\ key \notin DOMAIN ipmap /\ run.n <= maxCap
    THEN [open |-> TRUE, n |-> run.n + 1,
          first |-> IF run.n = 0 THEN key ELSE run.first]
    ELSE [open |-> FALSE, n |-> 0, first |-> NoKey]

---------------------------------------------------------------------------
(* The state after New *)

TypeOK ==
    /\ m \in {0} \cup Callers
    /\ clock >= 1
    /\ pc \in [Callers -> {"idle", "lock", "locked"}]
    /\ fatal \in {"none", "recv", "push"}
    /\ DOMAIN hist = DOMAIN ipmap
    /\ \A k \in DOMAIN ipmap : ipmap[k].mtime # 0

InitStore ==
    /\ ipmap = <<>>
    /\ keys = <<>>
    /\ m = 0
    /\ clock = 1
    /\ pc = [c \in Callers |-> "idle"]
    /\ rip = [c \in Callers |-> NilIP]
    /\ rnow = [c \in Callers |-> 0]
    /\ fatal = "none"
    /\ last = [kind |-> "none", ip |-> NilIP, key |-> NoKey, evicted |-> <<>>,
               calls |-> 0, status |-> 0, retry |-> <<>>]
    /\ hist = <<>>
    /\ run = [open |-> TRUE, n |-> 0, first |-> NoKey]
    /\ nreq = 0

---------------------------------------------------------------------------
(* ServeHTTP *)

\* ip := h.ipfunc(r); if ip == nil || ip.To4() == nil { h.handler.ServeHTTP(w, r); return }
ServeBypass(c, ip) ==
    /\ pc[c] = "idle"
    /\ NoUsableKey(ip)
    /\ last' = [kind |-> "bypass", ip |-> ip, key |-> NoKey, evicted |-> <<>>,
                calls |-> 1, status |-> StatusOK, retry |-> <<>>]
    /\ UNCHANGED <<cfg, ipmap, keys, m, clock, pc, rip, rnow, fatal, hist, run,
                   nreq>>

\* allow(ip): key := xxhash.Sum64(ip); now := time.Now()
AllowEnter(c, ip) ==
    /\ pc[c] = "idle"
    /\ ~NoUsableKey(ip)
    /\ pc' = [pc EXCEPT ![c] = "lock"]
    /\ rip' = [rip EXCEPT ![c] = ip]
    /\ rnow' = [rnow EXCEPT ![c] = clock]
    /\ nreq' = nreq + 1
    /\ UNCHANGED <<cfg, ipmap, keys, m, clock, fatal, last, hist, run>>

\* h.m.Lock()
Lock(c) ==
    /\ pc[c] = "lock"
    /\ m = 0
    /\ m' = c
    /\ pc' = [pc EXCEPT ![c] = "locked"]
    /\ UNCHANGED <<cfg, ipmap, keys, clock, rip, rnow, fatal, last, hist, run,
                   nreq>>

UnlockSkipped(c) == c

\* defer h.m.Unlock(): the holder of the mutex after caller c leaves allow()
Unlock(c) == 0

\* The body of allow() with its deferred h.m.Unlock(), and what ServeHTTP
\* does with the result: the 429 response or the inner handler.  A panic
\* unwinds through the deferred unlock and ends the request.
AllowBody(c) ==
    /\ pc[c] = "locked"
    /\ m = c
    /\ LET key == Sum64(rip[c])
           res == Allow(ipmap, keys, key, rnow[c])
       IN  /\ ipmap' = res.ipmap
           /\ keys' = res.keys
           /\ fatal' = IF res.panic # "none" THEN res.panic ELSE fatal
           /\ last' = [kind |-> IF res.panic # "none" THEN "panic"
                                ELSE IF res.allow THEN "admit" ELSE "reject",
                       ip |-> rip[c], key |-> key,
                       evicted |-> res.evicted,
                       calls |-> IF res.panic = "none"
                                 THEN Respond(res.allow).calls ELSE 0,
                       status |-> IF res.panic = "none"
                                  THEN Respond(res.allow).status ELSE 0,
                       retry |-> IF res.panic = "none"
                                 THEN Respond(res.allow).retry ELSE <<>>]
           /\ hist' = [k \in DOMAIN res.ipmap |->
                         IF k = key /\ res.panic = "none"
                         THEN HistAfter(key, rnow[c], res) ELSE hist[k]]
           /\ run' = RunAfter(key)
    /\ m' = Unlock(c)
    /\ pc' = [pc EXCEPT ![c] = "idle"]
    /\ rip' = [rip EXCEPT ![c] = NilIP]
    /\ rnow' = [rnow EXCEPT ![c] = 0]
    /\ UNCHANGED <<cfg, clock, nreq>>

\* time passes
Tick ==
    /\ clock' = clock + 1
    /\ UNCHANGED <<cfg, ipmap, keys, m, pc, rip, rnow, fatal, last, hist, run,
                   nreq>>

\* the wall clock is set back
ClockBack ==
    /\ clock > 1
    /\ clock' = clock - 1
    /\ UNCHANGED <<cfg, ipmap, keys, m, pc, rip, rnow, fatal, last, hist, run,
                   nreq>>

---------------------------------------------------------------------------
(* Spec: concurrent callers of one limiter, two addresses, a running clock *)

SpecCfg ==
    [Handler |-> TRUE, RefillEvery |-> 2, Burst |-> 2, MaxBuckets |-> MinBuckets]

SpecIPs == {V4(0), V4(1)}

Init == cfg = SpecCfg /\ InitStore

Next ==
    \/ \E c \in Callers, ip \in SpecIPs : nreq < MaxReqs /\ AllowEnter(c, ip)
    \/ \E c \in Callers : Lock(c)
    \/ \E c \in Callers : AllowBody(c)
    \/ clock < MaxClock /\ Tick

Spec == Init /\ [][Next]_vars

NextLive ==
    \/ \E c \in Callers : nreq < LiveMaxReqs /\ AllowEnter(c, V4(0))
    \/ \E c \in Callers : Lock(c)
    \/ \E c \in Callers : AllowBody(c)
    \/ clock < LiveMaxClock /\ Tick

\* Concurrent callers with the scheduling the Go runtime gives: a goroutine
\* holding the mutex keeps running, and a goroutine blocked in Lock gets the
\* mutex after finitely many releases (sync.Mutex hands it over in
\* starvation mode).
SpecLive ==
    /\ Init
    /\ [][NextLive]_vars
    /\ \A c \in Callers : SF_vars(Lock(c)) /\ WF_vars(AllowBody(c))

---------------------------------------------------------------------------
(* SpecSeq: one caller at a time; requests with and without a usable key,  *)
(* two addresses with the same hash, a running clock                       *)

SeqIPs == {NilIP, V6(1), V4(0), V4(1), V4(HashSpace)}

NextSeq ==
    \/ \E ip \in SeqIPs : ServeBypass(1, ip)
    \/ \E ip \in SeqIPs : nreq < SeqMaxReqs /\ AllowEnter(1, ip)
    \/ Lock(1)
    \/ AllowBody(1)
    \/ clock < SeqMaxClock /\ Tick

SpecSeq == Init /\ [][NextSeq]_vars

---------------------------------------------------------------------------
(* SpecSkew: one caller at a time, two addresses, a wall clock that runs   *)
(* and is set back                                                         *)

NextSkew ==
    \/ \E ip \in SpecIPs : nreq < SkewMaxReqs /\ AllowEnter(1, ip)
    \/ Lock(1)
    \/ AllowBody(1)
    \/ clock < SeqMaxClock /\ Tick
    \/ ClockBack

SpecSkew == Init /\ [][NextSkew]_vars

---------------------------------------------------------------------------
(* SpecNew: New with arguments in and out of range, then one caller at a   *)
(* time with one address.  Intervals are in ticks: 2 is 200ms, 15 is 1.5s. *)

NewCfgs ==
    [Handler : BOOLEAN, RefillEvery : {0 - 1, 0, 2, 10, 15, 20, 95},
     Burst : {0, 2}, MaxBuckets : {0, MinBuckets}]

InitNew == cfg \in NewCfgs /\ InitStore

NextNew ==
    \/ Constructed /\ nreq < NewMaxReqs /\ AllowEnter(1, V4(0))
    \/ Constructed /\ Lock(1)
    \/ Constructed /\ AllowBody(1)
    \/ Constructed /\ clock < NewMaxClock /\ Tick

SpecNew == InitNew /\ [][NextNew]_vars

---------------------------------------------------------------------------
(* SpecEvict: one caller at a time fills the store with distinct addresses *)
(* and goes on past its capacity.  A request is for the smallest untracked *)
(* key or, once the map is within one entry of its capacity, for a tracked *)
(* key: the oldest in the queue, the oldest a sweep would leave, the       *)
(* newest, or one that is in the map and no longer in the queue.           *)

Range(q) == {q[i] : i \in 1 .. Len(q)}

Smallest(S) == CHOOSE k \in S : \A j \in S : k <= j

Untracked == (0 .. (HashSpace - 1)) \ DOMAIN ipmap

Unqueued == DOMAIN ipmap \ Range(keys)

TrackedChoices ==
    (IF keys # <<>> THEN {keys[1], keys[Len(keys)]} ELSE {})
    \cup (IF Len(keys) > EvictCount THEN {keys[EvictCount + 1]} ELSE {})
    \cup (IF Unqueued # {} THEN {Smallest(Unqueued)} ELSE {})

EvictIPs ==
    {V4(Smallest(Untracked))}
    \cup (IF Cardinality(DOMAIN ipmap) + 1 >= maxCap
          THEN {V4(k) : k \in {j \in TrackedChoices : hist[j].nchk < MaxHits}}
          ELSE {})

NextEvict ==
    \/ \E ip \in EvictIPs : nreq < maxCap + ExtraReqs /\ AllowEnter(1, ip)
    \/ Lock(1)
    \/ AllowBody(1)

SpecEvict == Init /\ [][NextEvict]_vars

---------------------------------------------------------------------------
(* SpecDrain: one caller at a time asks for the smallest untracked key     *)
(* while the map has room and for the oldest key of the queue when the map *)
(* is full.                                                                *)

DrainIPs ==
    IF SweepNeeded(ipmap) /\ keys # <<>>
    THEN {V4(keys[1])}
    ELSE {V4(Smallest(Untracked))}

NextDrain ==
    \/ \E ip \in DrainIPs : fatal = "none" /\ AllowEnter(1, ip)
    \/ Lock(1)
    \/ AllowBody(1)

SpecDrain == Init /\ [][NextDrain]_vars

---------------------------------------------------------------------------
(* Properties *)

\* caller c runs the body of allow() in this step
Checks(c) == pc[c] = "locked" /\ pc'[c] = "idle"

\* the keys a sweep of the current queue dequeues
Oldest == {keys[i] : i \in 1 .. Min(maxCap \div EvictDivisor, Len(keys))}

AllKeys == 0 .. (HashSpace - 1)

\* C1: checks of a new key that arrive one after another within less than
\* one refill interval of the first: the first burst of them are admitted
\* and every later one is rejected.
C1_BurstThenReject ==
    \A k \in DOMAIN hist :
        (hist[k].mono /\ ipmap[k].mtime - hist[k].t0 < refillEvery)
            => hist[k].nadm = Min(hist[k].nchk, burst)

C1_Witness ==
    \E k \in DOMAIN hist :
        /\ hist[k].nchk = burst + 1
        /\ hist[k].nadm = burst
        /\ hist[k].mono
        /\ ipmap[k].mtime > hist[k].t0
        /\ ipmap[k].mtime - hist[k].t0 < refillEvery

\* C2: the bucket map never holds more than maxBuckets entries.
C2_MapBounded == Cardinality(DOMAIN ipmap) <= maxCap

C2_Witness ==
    /\ Cardinality(DOMAIN ipmap) = maxCap
    /\ nreq > maxCap + 1
    /\ Unqueued # {}

\* C3: the requests admitted on one bucket since its creation at t0 never
\* exceed burst + (t - t0)/refillEvery at any later time t.
C3_NoOverAdmission ==
    \A k \in DOMAIN hist :
        hist[k].nadm * refillEvery <= FullLeft + (clock - hist[k].t0)

\* C4: callers that check one new key with the same clock reading are
\* admitted min(N, burst) times in total, however they interleave.
C4_ConcurrentBurst ==
    \A k \in DOMAIN hist :
        hist[k].same => hist[k].nadm = Min(hist[k].nchk, burst)

C4_Witness ==
    \E k \in DOMAIN hist :
        /\ hist[k].same
        /\ hist[k].conc > burst
        /\ hist[k].nchk > burst
        /\ hist[k].nadm = burst

\* C5, as claimed: a check for key A never changes what the next check of
\* another key B finds, its stored bucket or, when it has none, a full one.
C5_NeverInterferes ==
    [][\A c \in Callers : \A b \in AllKeys :
          (Checks(c) /\ b # Sum64(rip[c]))
              => (IF b \in DOMAIN ipmap' THEN ipmap'[b] ELSE NewBucket)
                 = (IF b \in DOMAIN ipmap THEN ipmap[b] ELSE NewBucket)]_vars

\* C5, amended: a check for key A changes the bucket of another key B only
\* by deleting it, and it does so exactly when the check starts with the
\* map at capacity and B is among the maxBuckets/10 oldest keys of the queue.
C5_InterferesOnlyByEviction ==
    [][\A c \in Callers : \A b \in AllKeys :
          (Checks(c) /\ b # Sum64(rip[c]))
              => IF Cardinality(DOMAIN ipmap) >= maxCap /\ b \in Oldest
                 THEN b \notin DOMAIN ipmap'
                 ELSE /\ b \in DOMAIN ipmap <=> b \in DOMAIN ipmap'
                      /\ b \in DOMAIN ipmap => ipmap'[b] = ipmap[b]]_vars

C5_Witness ==
    /\ last.kind \in {"admit", "reject"}
    /\ last.evicted # <<>>
    /\ \E b \in DOMAIN ipmap : b # last.key
    /\ \E b \in Range(last.evicted) : b \notin DOMAIN ipmap

\* C6: a request without a usable key (nil or not IPv4) is forwarded to the
\* inner handler and leaves the bucket map and the queue as they were.
C6_BypassUntouched ==
    [][(last' # last /\ last'.ip.fam # 4)
          => /\ last'.kind = "bypass"
             /\ last'.calls = 1
             /\ ipmap' = ipmap
             /\ keys' = keys]_vars

C6_Witness ==
    /\ last.kind = "bypass"
    /\ last.ip.fam = 6
    /\ \E k \in DOMAIN ipmap : ipmap[k].left < refillEvery

\* C7: every stored bucket holds between 0 and burst tokens.
C7_TokensInRange ==
    \A k \in DOMAIN ipmap : 0 <= ipmap[k].left /\ ipmap[k].left <= FullLeft

C7_Witness ==
    \E k \in DOMAIN hist :
        /\ hist[k].nchk > 3
        /\ \E i \in 1 .. Len(hist[k].log) :
              hist[k].log[i].pre + hist[k].log[i].spent > FullLeft
        /\ \E i \in 1 .. Len(hist[k].log) : hist[k].log[i].spent < 0
        /\ \E i \in 1 .. Len(hist[k].log) : hist[k].log[i].spent = 0

\* entry i of the log is a rejection and entry i+1 a check at least one
\* refill interval later
AfterReject(l, i) ==
    /\ i + 1 <= Len(l)
    /\ ~l[i].allow
    /\ l[i + 1].now >= l[i].now + refillEvery

\* C8, as claimed: the check that follows a rejection by at least one refill
\* interval is admitted, measuring the elapsed time from the rejection, and
\* a check right after it is rejected.
C8_ExactlyOneMore ==
    \A k \in DOMAIN hist :
        \A i \in 1 .. Len(hist[k].log) :
            LET l == hist[k].log
            IN  AfterReject(l, i)
                => /\ l[i + 1].allow
                   /\ l[i + 1].spent = l[i + 1].now - l[i].now
                   /\ (i + 2 <= Len(l) /\ l[i + 2].now = l[i + 1].now)
                          => ~l[i + 2].allow

\* C8, amended: the check that follows a rejection by d >= one refill
\* interval is admitted, measuring d from the rejection; a check right after
\* it is rejected exactly when min(burst, x + d/refillEvery) < 2, x being
\* the tokens the rejection left.
C8_OneMoreBelowTwoTokens ==
    \A k \in DOMAIN hist :
        \A i \in 1 .. Len(hist[k].log) :
            LET l == hist[k].log
            IN  AfterReject(l, i)
                => /\ l[i + 1].allow
                   /\ l[i + 1].spent = l[i + 1].now - l[i].now
                   /\ (i + 2 <= Len(l) /\ l[i + 2].now = l[i + 1].now)
                          => (~l[i + 2].allow
                              <=> Min(FullLeft, l[i].left + l[i + 1].spent)
                                  < 2 * refillEvery)

C8_Witness ==
    \E k \in DOMAIN hist :
        LET l == hist[k].log
        IN  /\ Len(l) = 3
            /\ AfterReject(l, 1)
            /\ l[1].left > 0
            /\ l[3].now = l[2].now
            /\ ~l[3].allow

\* C9, as claimed: after maxBuckets + 1 distinct keys from the empty store
\* the map holds maxBuckets entries, without the first key and with the last.
C9_FullAfterOverflow ==
    (run.open /\ run.n = maxCap + 1)
        => /\ Cardinality(DOMAIN ipmap) = maxCap
           /\ run.first \notin DOMAIN ipmap
           /\ last.key \in DOMAIN ipmap

\* C9, amended: after maxBuckets + 1 distinct keys from the empty store the
\* map holds maxBuckets - maxBuckets/10 + 1 entries, without the first key
\* and with the last.
C9_SweptAfterOverflow ==
    (run.open /\ run.n = maxCap + 1)
        => /\ Cardinality(DOMAIN ipmap)
                = maxCap - (maxCap \div EvictDivisor) + 1
           /\ run.first \notin DOMAIN ipmap
           /\ last.key \in DOMAIN ipmap

C9_Witness == run.open /\ run.n = maxCap + 1 /\ last.evicted # <<>>

\* C10: no request finds the queue empty in the middle of a sweep.
C10_SweepNeverBlocked == fatal # "recv"

\* the last entry of the log of the key of the last completed check
LastEntry == hist[last.key].log[Len(hist[last.key].log)]

\* C11: a request with a usable key reaches the inner handler exactly once
\* when its check took a token and not at all when it did not; it is
\* answered 429 exactly when its check took no token.
C11_HandlerIffAdmitted ==
    last.kind \in {"admit", "reject"} =>
        /\ (last.kind = "admit") = LastEntry.allow
        /\ LastEntry.allow =>
               last.calls = 1 /\ last.status # StatusTooManyRequests
        /\ ~LastEntry.allow =>
               last.calls = 0 /\ last.status = StatusTooManyRequests

C11_Witness ==
    /\ last.kind = "reject"
    /\ last.calls = 0
    /\ last.status = StatusTooManyRequests
    /\ hist[last.key].nadm >= 1

\* strconv.Atoi of a sequence of decimal digits
RECURSIVE Atoi(_)
Atoi(s) ==
    IF s = <<>> THEN 0
    ELSE 10 * Atoi(SubSeq(s, 1, Len(s) - 1)) + s[Len(s)]

CeilDiv(a, b) == (a + b - 1) \div b

\* C12 as stated: the Retry-After of every rejection is the refill interval
\* in seconds rounded up, plus one, for every positive interval.
C12_RetryAfterCeilPlusOne ==
    (cfg.RefillEvery > 0 /\ last.kind = "reject") =>
        Atoi(last.retry) = CeilDiv(cfg.RefillEvery, TicksPerSecond) + 1

\* C12: the Retry-After of every rejection is the refill interval in seconds
\* rounded down, plus one, for every positive interval: the same value for
\* every rejection of one limiter.
C12_RetryAfterFloorPlusOne ==
    (cfg.RefillEvery > 0 /\ last.kind = "reject") =>
        Atoi(last.retry) = (cfg.RefillEvery \div TicksPerSecond) + 1

C12_Witness ==
    /\ last.kind = "reject"
    /\ cfg.RefillEvery % TicksPerSecond # 0
    /\ Len(last.retry) = 2

C14_PushNeverBlocked ==
    [][\A c \in Callers :
          (Checks(c) /\ Sum64(rip[c]) \notin DOMAIN ipmap) =>
              /\ fatal' # "push"
              /\ fatal' = "none" =>
                     /\ keys'[Len(keys')] = Sum64(rip[c])
                     /\ Len(keys') - 1 < maxCap]_vars

C14_Witness ==
    /\ fatal = "none"
    /\ Len(keys) = maxCap
    /\ keys[maxCap] = last.key
    /\ hist[last.key].nchk = 1

Max(a, b) == IF a >= b THEN a ELSE b

\* what a logged check had to decide with: what it left, plus the token it
\* took if it admitted
Avail(e) == e.left + (IF e.allow THEN refillEvery ELSE 0)

\* C15: a check of a bucket holding x tokens, stamped t, at time t' decides
\* with min(burst, x + max(0, (t' - t) / refillEvery)) tokens, fractions
\* kept; a bucket with no prior timestamp is not refilled; the check admits
\* exactly when that amount is at least one token.  (Amounts are in units
\* of 1/refillEvery token.)
C15_RefillFormula ==
    \A k \in DOMAIN hist : \A i \in 1 .. Len(hist[k].log) :
        LET l == hist[k].log
            e == l[i]
        IN  /\ e.fresh => Avail(e) = e.pre
            /\ ~e.fresh => Avail(e) = Min(FullLeft, e.pre + Max(0, e.spent))
            /\ (~e.fresh /\ i > 1) => e.spent = e.now - l[i - 1].now
            /\ e.allow = (Avail(e) >= refillEvery)

C15_Witness ==
    /\ last.kind = "admit"
    /\ ~LastEntry.fresh
    /\ LastEntry.pre = 0
    /\ LastEntry.spent > refillEvery
    /\ LastEntry.spent % refillEvery # 0
    /\ LastEntry.left % refillEvery # 0
    /\ \E i \in 1 .. Len(hist[last.key].log) :
           /\ hist[last.key].log[i].spent < 0
           /\ hist[last.key].log[i].left = hist[last.key].log[i].pre

\* C16: a check sweeps exactly when it starts with maxCap or more keys in
\* the map; the sweep takes exactly maxCap/10 keys off the queue, the oldest
\* ones in their order, and deletes exactly their buckets; the rest of the
\* queue keeps its order and every other key's bucket is unchanged.  (The
\* checked key itself is left out: the check stores its bucket afterwards.)
C16_SweepExact ==
    [][\A c \in Callers :
          Checks(c) =>
              LET key == Sum64(rip[c])
                  n == maxCap \div EvictDivisor
                  rest == SubSeq(keys, n + 1, Len(keys))
                  others == DOMAIN ipmap \ {key}
              IN  IF Cardinality(DOMAIN ipmap) >= maxCap
                  THEN /\ Len(keys) >= n
                       /\ last'.evicted = SubSeq(keys, 1, n)
                       /\ keys' \in {rest, Append(rest, key)}
                       /\ \A k \in others :
                              IF k \in Range(SubSeq(keys, 1, n))
                              THEN k \notin DOMAIN ipmap'
                              ELSE /\ k \in DOMAIN ipmap'
                                   /\ ipmap'[k] = ipmap[k]
                  ELSE /\ last'.evicted = <<>>
                       /\ keys' \in {keys, Append(keys, key)}
                       /\ \A k \in others :
                              /\ k \in DOMAIN ipmap'
                              /\ ipmap'[k] = ipmap[k]]_vars

NoDuplicates(q) == \A i, j \in 1 .. Len(q) : q[i] = q[j] => i = j

\* C17: the queue never holds a key twice; a check that finds its key in
\* the map pushes nothing (the queue it leaves is the tail of the queue it
\* found); a check that finds its key untracked appends it once, and the
\* key was not in the queue.
C17_PushedOnce ==
    [][\A c \in Callers :
          Checks(c) =>
              LET key == Sum64(rip[c])
              IN  /\ NoDuplicates(keys')
                  /\ key \in DOMAIN ipmap =>
                         /\ Len(keys') <= Len(keys)
                         /\ keys' = SubSeq(keys, Len(keys) - Len(keys') + 1,
                                           Len(keys))
                  /\ (key \notin DOMAIN ipmap /\ fatal' = "none") =>
                         /\ key \notin Range(keys)
                         /\ keys'[Len(keys')] = key
                         /\ key \notin
                                Range(SubSeq(keys', 1, Len(keys') - 1))]_vars

C17_Witness ==
    /\ last.kind \in {"admit", "reject"}
    /\ hist[last.key].nchk >= 2
    /\ last.key \in Range(keys)
    /\ Len(keys) >= 2
    /\ NoDuplicates(keys)

C19_MapEqualsQueue == m = 0 => DOMAIN ipmap = Range(keys)

\* C20: with a clock that never runs backwards, no check lowers the
\* timestamp stored in its key's bucket.
C20_TimestampMonotonic ==
    [][\A c \in Callers :
          Checks(c) =>
              \A k \in DOMAIN ipmap \cap DOMAIN ipmap' :
                  ipmap'[k].mtime >= ipmap[k].mtime]_vars

===========================================================================
